---- MODULE Spec2Model ----
(***************************************************************************)
(* A model of commah (src/commah/commah.py): the input reconciliation of   *)
(* _checkinput, the cosmology resolution of getcosmo / getAscaling, the    *)
(* growth functions _int_growth, growthfactor and _deriv_growth, the       *)
(* per-pair loop of COM, the per-target loop of MAH and the orchestration  *)
(* of run.                                                                 *)
(*                                                                         *)
(* Numbers.  Redshifts and input masses are small integers.  The results   *)
(* of the floating point formulas (calc_ab, acc_rate, brentq, formationz,  *)
(* sigma_r) are kept as terms: a record [f |-> name, x |-> arguments] that *)
(* says which formula was applied to which arguments.  Two results are     *)
(* equal in the model iff they are the same formula of the same arguments. *)
(* A plain number n is the term Num(n).                                    *)
(***************************************************************************)
EXTENDS Integers, Sequences, FiniteSets, TLC

VARIABLES
    pc,        \* position of the current call: which statement runs next
    arg,       \* the arguments of the current call
    results,   \* run: what _checkinput returned (zi, Mi, z, lenz, lenm, lenzout)
    heap,      \* the dict objects: the caller's mapping and the one built by name
    cosmo,     \* run/getcosmo: which dict object the local name cosmo is bound to
    fout,      \* run: the output file: "unopened", "open" or "closed"
    dataset,   \* run: the structured array, a sequence (samples) of sequences of rows
    i_ind,     \* run: the number of samples whose iteration has finished
    it,        \* run: the locals the sample loop leaves behind (ztemp, dMdt, Mz, ...)
    comcall,   \* the arguments and the outcome of the latest COM call
    stdout,    \* the diagnostics printed by the current call
    exc,       \* the exception the current call raised, "none" if none
    ret,       \* what the current call returned: "none", "minus1", "dataset", "cosmo", "arrays"
    libcall    \* a client's direct call of _int_growth, growthfactor, _deriv_growth,
               \* calc_ab or MAH: the function, its arguments and its outcome

vars == <<pc, arg, results, heap, cosmo, fout, dataset, i_ind, it, comcall,
          stdout, exc, ret, libcall>>

(***************************************************************************)
(* Bounds of the model.                                                    *)
(***************************************************************************)
MaxLen == 2    \* run is called with at most MaxLen zi, MaxLen + 1 Mi
MaxLenZ == 2   \* and at most MaxLenZ output redshifts z

Redshifts == {0, 1}
InputMasses == {1, 2}

\* every sequence over S of length at most n
SeqsUpTo(S, n) == UNION {[1..k -> S] : k \in 0..n}

(***************************************************************************)
(* Numbers and terms.                                                      *)
(***************************************************************************)
Num(n) == [f |-> "num", x |-> <<n>>]

\* np.zeros: a row of the structured array before anything is stored in it
ZeroRow ==
    [zi |-> 0, Mi |-> 0, z |-> 0, dMdt |-> Num(0), Mz |-> Num(0),
     c |-> Num(0), sig |-> Num(0), nu |-> Num(0), zf |-> Num(0)]

\* np.array(x, ndmin=1, dtype=float): a scalar becomes an array of one element
np_array(x) == x.vals

\* an argument that is a scalar / a list
Scalar(v) == [scalar |-> TRUE, vals |-> <<v>>]
List(s) == [scalar |-> FALSE, vals |-> s]

\* z=False, the default of run and _checkinput
zFalse == [given |-> FALSE, scalar |-> FALSE, vals |-> <<>>]
zGiven(x) == [given |-> TRUE, scalar |-> x.scalar, vals |-> x.vals]

(***************************************************************************)
(* _izip: the tuples of the k-th elements, up to the shorter iterable.     *)
(***************************************************************************)
Min(a, b) == IF a <= b THEN a ELSE b

\* a zip that stops one tuple early
_izip_stops_early(a, b) ==
    [k \in 1..(Min(Len(a), Len(b)) - 1) |-> <<a[k], b[k]>>]

_izip(a, b) == [k \in 1..Min(Len(a), Len(b)) |-> <<a[k], b[k]>>]

(***************************************************************************)
(* _checkinput(zi, Mi, z).  The result is -1 (code = -1) or the tuple      *)
(* (zi, Mi, z, zi.size, Mi.size, lenzout) (code = 0).                      *)
(***************************************************************************)
MinusOne == [code |-> -1]

\* np.ones_like(a) without the factor
ones_like_only(a, v) == [k \in 1..Len(a) |-> 1]

\* np.ones_like(a) * v
ones_like_times(a, v) == [k \in 1..Len(a) |-> 1 * v]

\* a size test that sees only a longer zi
ambiguous_one_sided(zi0, Mi0) ==
    Len(zi0) > 1 /\ Len(Mi0) > 1 /\ Len(zi0) > Len(Mi0)

\* lines 39-40: both have several elements and not equally many
ambiguous_sizes(zi0, Mi0) ==
    Len(zi0) > 1 /\ Len(Mi0) > 1 /\ Len(zi0) # Len(Mi0)

_checkinput(zi_arg, Mi_arg, z_arg) ==
    LET zi0 == np_array(zi_arg)
        Mi0 == np_array(Mi_arg)
        ambiguous == ambiguous_sizes(zi0, Mi0)
        zi1 == IF Len(zi0) > 1 /\ Len(Mi0) > 1 THEN zi0
               ELSE IF Len(zi0) = 1 /\ Len(Mi0) > 1
                    THEN ones_like_times(Mi0, zi0[1])
                    ELSE zi0
        Mi1 == IF Len(zi0) > 1 /\ Len(Mi0) > 1 THEN Mi0
               ELSE IF Len(zi0) = 1 /\ Len(Mi0) > 1 THEN Mi0
               ELSE IF Len(Mi0) = 1 /\ Len(zi0) > 1
                    THEN ones_like_times(zi0, Mi0[1])
                    ELSE Mi0
        z1 == IF z_arg.given THEN [given |-> TRUE, vals |-> np_array(z_arg)]
              ELSE [given |-> FALSE, vals |-> <<>>]
        lenzout == IF z_arg.given THEN Len(np_array(z_arg)) ELSE 1
    IN  IF ambiguous THEN MinusOne
        ELSE [code |-> 0, zi |-> zi1, Mi |-> Mi1, z |-> z1,
              lenz |-> Len(zi1), lenm |-> Len(Mi1), lenzout |-> lenzout]

(***************************************************************************)
(* Cosmologies.  A dict is a function from its keys to its values, in      *)
(* thousandths (h = 702 is 0.702); A_scaling is a term.  A string is kept  *)
(* as its lower-case form and whether it has an upper-case letter, which   *)
(* is all str.lower and the table look-ups depend on.                      *)
(***************************************************************************)
EmptyDict == <<>>

update(d, k, v) == [x \in (DOMAIN d) \cup {k} |-> IF x = k THEN v ELSE d[x]]

Restrict(d, K) == [x \in (DOMAIN d) \cap K |-> d[x]]

Str(base, cased) == [kind |-> "str", base |-> base, cased |-> cased]
lower(s) == [s EXCEPT !.cased = FALSE]

\* the argument is the caller's mapping (heap.caller) / neither str nor dict
TheDict == [kind |-> "dict", base |-> "", cased |-> FALSE]
NotStrNotDict == [kind |-> "other", base |-> "", cased |-> FALSE]

\* the parameter dicts of commah.cosmology_list: the keys and the values of
\* the dict that the docstrings of commah.py give as their format
cg_params ==
    [N_nu |-> 0, Y_He |-> 240, h |-> 702, n |-> 963, omega_M_0 |-> 275,
     omega_b_0 |-> 46, omega_lambda_0 |-> 725, omega_n_0 |-> 0,
     sigma_8 |-> 816, t_0 |-> 13760, tau |-> 88, z_reion |-> 10600]

\* the keys of defaultcosmologies in getcosmo
getcosmo_names ==
    {"dragons", "wmap1", "wmap3", "wmap5", "wmap7", "wmap9", "wmap1_lss",
     "wmap3_mean", "wmap5_ml", "wmap5_lss", "wmap7_lss", "planck13",
     "planck15"}

\* defaultcosmologies in getAscaling
Ascaling_table ==
    [dragons |-> 887, wmap1 |-> 853, wmap3 |-> 850, wmap5 |-> 887,
     wmap7 |-> 887, wmap9 |-> 950, wmap1_lss |-> 853, wmap3_mean |-> 850,
     wmap5_ml |-> 887, wmap5_lss |-> 887, wmap7_lss |-> 887,
     planck13 |-> 880, planck15 |-> 880]

\* _delta_sigma reads sigma_8 and n of the mapping (a KeyError without them);
\* the perturbed value is a term of what it depends on
_delta_sigma_keys == {"sigma_8", "n"}

_delta_sigma(d) ==
    [f |-> "delta_sigma", x |-> <<d["sigma_8"], d["n"], Restrict(d, {"omega_M_0", "h"})>>]

\* getAscaling(cosmology, newcosmo=True)
getAscaling_new(d) ==
    [f |-> "A_scaled", x |-> <<Ascaling_table["wmap5"], _delta_sigma(d)>>]

\* getAscaling(cosmology) of a name: the table's value; for a name that is
\* not in the table only a message is printed and A_scaling stays unbound
getAscaling_known(s) == lower(s).base \in DOMAIN Ascaling_table

\* a look-up that always takes the reference entry
getAscaling_reference(s) == Num(Ascaling_table["wmap5"])

getAscaling(s) == Num(Ascaling_table[lower(s).base])

\* cosmolopy's set_omega_k_0: sets omega_k_0 in place unless present
set_omega_k_0(d) ==
    IF "omega_k_0" \in DOMAIN d THEN d
    ELSE update(d, "omega_k_0", 1000 - d["omega_M_0"] - d["omega_lambda_0"])

RECURSIVE fill_zero(_, _)
fill_zero(d, K) ==
    IF K = {} THEN d
    ELSE LET k == CHOOSE x \in K : TRUE
         IN  fill_zero(IF k \in DOMAIN d THEN d ELSE update(d, k, 0), K \ {k})

\* lines 107-113 of getcosmo, on the dict object cosmo is bound to
getcosmo_tail(d) ==
    LET d1 == set_omega_k_0(d)
    IN  update(d1, "baryonic_effects", d1["omega_b_0"] > 0)

(***************************************************************************)
(* getcosmo(cosmology), on the heap h.  cosmo names the object the local   *)
(* variable is bound to when getcosmo ends: "caller" is the very object    *)
(* the caller passed (cosmo = cosmology binds, it does not copy), "fresh"  *)
(* the dict built by cosmology_list for this call.                         *)
(***************************************************************************)
getcosmo(cosmology, h) ==
    IF cosmology.kind = "dict" THEN
        LET d0 == h.caller
            derive == "A_scaling" \notin DOMAIN d0
        IN  IF derive /\ ~(_delta_sigma_keys \subseteq DOMAIN d0)
            THEN [heap |-> h, cosmo |-> "caller", exc |-> "KeyError", stdout |-> <<>>]
            ELSE LET d1 == IF derive
                           THEN update(d0, "A_scaling", getAscaling_new(d0))
                           ELSE d0
                     d2 == fill_zero(d1, DOMAIN cg_params)
                 IN  [heap |-> [h EXCEPT !.caller = getcosmo_tail(d2)],
                      cosmo |-> "caller", exc |-> "none", stdout |-> <<>>]
    ELSE IF cosmology.kind # "str" THEN
        \* cosmology.lower() of a value that has no such method
        [heap |-> h, cosmo |-> "unbound", exc |-> "AttributeError", stdout |-> <<>>]
    ELSE IF lower(cosmology).base \in getcosmo_names THEN
        IF ~getAscaling_known(cosmology)
        THEN [heap |-> [h EXCEPT !.fresh = cg_params], cosmo |-> "fresh",
              exc |-> "UnboundLocalError",
              stdout |-> <<"don't recognise your cosmology for A_scaling">>]
        ELSE LET d1 == update(cg_params, "A_scaling", getAscaling(cosmology))
             IN  [heap |-> [h EXCEPT !.fresh = getcosmo_tail(d1)],
                  cosmo |-> "fresh", exc |-> "none", stdout |-> <<>>]
    ELSE
        \* the message is printed, then line 107 reads the unbound local cosmo
        [heap |-> h, cosmo |-> "unbound", exc |-> "UnboundLocalError",
         stdout |-> <<"not a recognised cosmology">>]

\* the dict the name cosmo refers to
deref(h, ref) == IF ref = "caller" THEN h.caller
                 ELSE IF ref = "fresh" THEN h.fresh ELSE EmptyDict

(***************************************************************************)
(* _int_growth, growthfactor, _deriv_growth.  The redshift argument z is a *)
(* scalar or a sequence (Scalar, List); d is the cosmology record.  A call *)
(* ends with a value, [exc |-> "none", val |-> term], or with an           *)
(* exception, [exc |-> name].  What scipy's quad does with a sequence as   *)
(* its lower limit depends on its version and on the length: it is the     *)
(* parameter quad_ok (integrates, or raises "QuadError").                  *)
(***************************************************************************)
zmax == 200

\* an assertion that lets zmax itself through
_int_growth_asserted_le(z) == \A k \in 1..Len(z.vals) : z.vals[k] <= zmax

\* lines 231-235: assert(zval < zmax) for every element of a sequence,
\* assert(z < zmax) for a scalar
_int_growth_asserted(z) == \A k \in 1..Len(z.vals) : z.vals[k] < zmax

_int_growth(z, d, quad_ok) ==
    IF ~_int_growth_asserted(z) THEN [exc |-> "AssertionError"]
    ELSE IF ~z.scalar /\ ~quad_ok THEN [exc |-> "QuadError"]
    ELSE [exc |-> "none",
          val |-> [f |-> "int_growth",
                   x |-> <<z.vals, d["omega_M_0"], d["omega_lambda_0"]>>]]

\* H = sqrt(omega_M_0 * (1 + z)**3 + omega_lambda_0), kept as the three
\* numbers under the root
H_of(z, d) ==
    [f |-> "H",
     x |-> <<[k \in 1..Len(z.vals) |-> (1 + z.vals[k])^3], d["omega_M_0"],
             d["omega_lambda_0"]>>]

\* H * _int_growth(z), divided by _int_growth(0) if norm: the value is the
\* term of H, of the integral and of the divisor (1 without norm)
growthfactor(z, norm, d, quad_ok) ==
    LET I == _int_growth(z, d, quad_ok)
        I0 == _int_growth(Scalar(0), d, quad_ok)
    IN  IF I.exc # "none" THEN [exc |-> I.exc]
        ELSE IF norm /\ I0.exc # "none" THEN [exc |-> I0.exc]
        ELSE [exc |-> "none",
              val |-> [f |-> "growthval",
                       x |-> <<H_of(z, d), I.val,
                               IF norm THEN I0.val ELSE Num(1)>>]]

\* lines 252-254: growthfactor(z) is evaluated first, then _int_growth(z)
_deriv_growth(z, d, quad_ok) ==
    LET g == growthfactor(z, TRUE, d, quad_ok)
        I == _int_growth(z, d, quad_ok)
    IN  IF g.exc # "none" THEN [exc |-> g.exc]
        ELSE IF I.exc # "none" THEN [exc |-> I.exc]
        ELSE [exc |-> "none",
              val |-> [f |-> "deriv_g", x |-> <<H_of(z, d), g.val, I.val>>]]

\* lines 399-400: calc_ab(zi, Mi) evaluates _deriv_growth(zi) and
\* growthfactor(zi) of the scalar zi and catches nothing
calc_ab_exc(zi, d) ==
    LET dg == _deriv_growth(Scalar(zi), d, TRUE)
        g == growthfactor(Scalar(zi), TRUE, d, TRUE)
    IN  IF dg.exc # "none" THEN dg.exc ELSE g.exc

(***************************************************************************)
(* calc_ab, acc_rate, MAH.  zi and z are redshifts, Mi is a mass (a term). *)
(***************************************************************************)
\* the indices (a_tilde, b_tilde) of the epoch zi and the mass Mi
calc_ab(zi, Mi) == [f |-> "ab", x |-> <<zi, Mi>>]

\* an acc_rate that takes the indices of the epoch z it is asked for
acc_rate_own_epoch(z, zi, Mi) ==
    LET ab == calc_ab(z, Mi)
        Mz == IF z - zi = 0 THEN Mi
              ELSE [f |-> "Mz", x |-> <<Mi, z - zi, ab>>]
    IN  [dMdt |-> [f |-> "dMdt", x |-> <<Mz, z, z - zi, ab>>], Mz |-> Mz]

\* Mz = Mi * (1 + z - zi)**a_tilde * exp(b_tilde * (z - zi)), which is
\* Mi * 1 * 1 = Mi at z = zi, and dMdt of Mz, z, zi and the indices
acc_rate(z, zi, Mi) ==
    LET ab == calc_ab(zi, Mi)
        Mz == IF z - zi = 0 THEN Mi
              ELSE [f |-> "Mz", x |-> <<Mi, z - zi, ab>>]
    IN  [dMdt |-> [f |-> "dMdt", x |-> <<Mz, z, z - zi, ab>>], Mz |-> Mz]

MAH(z, zi, Mi) ==
    [dMdt |-> [k \in 1..Len(z) |-> acc_rate(z[k], zi, Mi).dMdt],
     Mz |-> [k \in 1..Len(z) |-> acc_rate(z[k], zi, Mi).Mz]]

(***************************************************************************)
(* The numbers behind the term calc_ab(zi, Mi).  Lines 394-402 give        *)
(* b_tilde = -f and a_tilde = (gt + 1) * f, where f = (sigq**2 -           *)
(* sig**2)**(-0.5) is positive whenever it is a number, and where gt =     *)
(* sqrt(2/pi) * 1.686 * _deriv_growth(zi) / growthfactor(zi)**2 is         *)
(* negative for every zi < zmax: with u = 1 + z, (u / H**3) is             *)
(* -(d(1/H)/du) / (1.5 * omega_M_0 * u), so by parts the integral of line  *)
(* 238 is below 1 / (1.5 * omega_M_0 * (1 + z) * H), which makes line 252  *)
(* smaller than line 254.  f is a positive integer here and gt a negative  *)
(* number of halves, gt2 = 2 * gt; a2 is 2 * a_tilde.                      *)
(***************************************************************************)
\* b_tilde = f
calc_ab_values_b_positive(gt2, f) == [a2 |-> (gt2 + 2) * f, b |-> f]

calc_ab_values(gt2, f) == [a2 |-> (gt2 + 2) * f, b |-> -f]

\* the step z - zi of an entry of Mz_array: Mi itself is the entry of z = zi
step_of(m) == IF m.f = "Mz" THEN m.x[2] ELSE 0

\* line 437 for two entries m1, m2 of one MAH call (one Mi > 0, one pair of
\* indices ix), at the steps d1 and d2: Mz(d1) >= Mz(d2), that is, squared
\* and divided by Mi**2, (1 + d1)**a2 / (1 + d2)**a2 >= e**(2 * b * (d2 -
\* d1)).  It is decided with 5/2 < e < 3, so TRUE only if it surely holds
Mz_ge(m1, m2, ix) ==
    LET d1 == step_of(m1)
        d2 == step_of(m2)
        up == IF ix.a2 >= 0 THEN ix.a2 ELSE 0
        dn == IF ix.a2 >= 0 THEN 0 ELSE 0 - ix.a2
        P == (1 + d1)^up * (1 + d2)^dn
        Q == (1 + d2)^up * (1 + d1)^dn
        n == 2 * ix.b * (d2 - d1)
    IN  IF n <= 0 THEN P * 5^(0 - n) >= Q * 2^(0 - n)
        ELSE P >= Q * 3^n

\* lines 480-482: acc_rate of the first step calls calc_ab(zi, Mi); what it
\* raises leaves MAH
MAH_exc(z, zi, d) == IF Len(z) > 0 THEN calc_ab_exc(zi, d) ELSE "none"

(***************************************************************************)
(* COM(z, M, **cosmo).  brentq(f, a, b) returns a root inside [a, b], or   *)
(* raises ValueError when f(a) and f(b) have the same sign: which of the   *)
(* two happens for a pair is not computed here, it is the parameter fail   *)
(* (the first pair whose solve raises, 0 if none does).  The arrays come   *)
(* from np.empty_like(z): an entry the loop does not assign holds whatever *)
(* the memory held, the parameter garbage.                                 *)
(***************************************************************************)
brentq_a == 2
brentq_b == 1000

brentq(a, b, zval, ab, A) == [f |-> "root", x |-> <<a, b, zval, ab, A>>]

\* np.isclose(c, 0) of a root known to lie in [c.x[1], c.x[2]]
isclose_0(c) == c.x[1] <= 0 /\ 0 <= c.x[2]

formationz(c, zval, A) == [f |-> "zf", x |-> <<c, zval, A>>]

\* sigma_r(mass_to_radius(Mval), 0)
sigma_of(Mval) == [f |-> "sig", x |-> <<Mval>>]

nu_of(sig, zval) == [f |-> "nu", x |-> <<sig, zval>>]

\* one pass of the loop body of COM for the pair (zval, Mval)
COM_pair(zval, Mval, A) ==
    LET ab == calc_ab(zval, Mval)
        c == brentq(brentq_a, brentq_b, zval, ab, A)
    IN  IF isclose_0(c)
        THEN [c |-> Num(-1), sig |-> Num(-1), nu |-> Num(-1), zf |-> Num(-1)]
        ELSE [c |-> c, sig |-> sigma_of(Mval),
              nu |-> nu_of(sigma_of(Mval), zval),
              zf |-> formationz(c, zval, A)]

\* the first pair whose calc_ab (line 527) raises, 0 if none does
COM_first_asserted(pairs, d) ==
    LET bad == {k \in 1..Len(pairs) : calc_ab_exc(pairs[k][1], d) # "none"}
    IN  IF bad = {} THEN 0 ELSE CHOOSE k \in bad : \A j \in bad : k <= j

COM(z, M, d, fail, garbage) ==
    LET pairs == _izip(z, M)
        bad == COM_first_asserted(pairs, d)
        entry(k) == IF k <= Len(pairs)
                    THEN COM_pair(pairs[k][1], pairs[k][2], d["A_scaling"])
                    ELSE garbage[k]
        raised(e, k) ==
            [z |-> z, M |-> M, exc |-> e, failed |-> 0,
             assigned |-> 1..(k - 1), c |-> <<>>, sig |-> <<>>, nu |-> <<>>,
             zf |-> <<>>]
    IN  IF bad = 1 THEN raised(calc_ab_exc(pairs[1][1], d), 1)
        ELSE IF Len(pairs) > 0 /\ "A_scaling" \notin DOMAIN d
        THEN raised("KeyError", 1)
        ELSE IF bad > 0 /\ (fail = 0 \/ bad <= fail)
        THEN raised(calc_ab_exc(pairs[bad][1], d), bad)
        ELSE IF fail > 0
        THEN [z |-> z, M |-> M, exc |-> "ValueError", failed |-> fail,
              assigned |-> 1..(fail - 1), c |-> <<>>, sig |-> <<>>,
              nu |-> <<>>, zf |-> <<>>]
        ELSE [z |-> z, M |-> M, exc |-> "none", failed |-> 0,
              assigned |-> 1..Len(pairs),
              c |-> [k \in 1..Len(z) |-> entry(k).c],
              sig |-> [k \in 1..Len(z) |-> entry(k).sig],
              nu |-> [k \in 1..Len(z) |-> entry(k).nu],
              zf |-> [k \in 1..Len(z) |-> entry(k).zf]]

\* what an unassigned entry of an np.empty array may hold
Garbage == {Num(0), Num(7)}

GarbageRows == [c : Garbage, sig : Garbage, nu : Garbage, zf : Garbage]

NoCOM ==
    [z |-> <<>>, M |-> <<>>, exc |-> "none", failed |-> 0, assigned |-> {},
     c |-> <<>>, sig |-> <<>>, nu |-> <<>>, zf |-> <<>>]

(***************************************************************************)
(* The arguments a call may carry.                                         *)
(***************************************************************************)
ArgsOver(S, n) == {Scalar(v) : v \in S} \cup {List(s) : s \in SeqsUpTo(S, n)}

zArgs == {zFalse} \cup {zGiven(x) : x \in ArgsOver(Redshifts, MaxLenZ)}

Filenames == {"None", "out.txt"}

\* the name of the calls that vary zi, Mi and z: in the table up to case
SomeNames == {Str("planck15", TRUE)}

AllNames == {Str(b, u) : b \in getcosmo_names \cup {"lcdm"}, u \in BOOLEAN}

\* the mappings a caller may pass: n, omega_M_0 and omega_lambda_0, any of
\* the optional keys, and the auxiliary keys all or none
custom_full == update(cg_params, "A_scaling", Num(900))
custom_optional == {"A_scaling", "sigma_8", "omega_b_0", "h"}
custom_base == {"n", "omega_M_0", "omega_lambda_0"}
custom_aux == (DOMAIN cg_params) \ (custom_optional \cup custom_base)

CustomMappings ==
    {Restrict(custom_full, custom_base \cup S \cup R) :
        S \in SUBSET custom_optional, R \in {{}, custom_aux}}

\* run's defaults: zi=0, Mi=1e12 (one mass unit), z=False, com=True,
\* mah=True, filename=None
default_zi == Scalar(0)
default_Mi == Scalar(1)

NoResults == [code |-> 1]
NoHeap == [caller |-> EmptyDict, fresh |-> EmptyDict]
NoIt == [ztemp |-> <<>>, dMdt |-> <<>>, Mz |-> <<>>]
NoFile == [state |-> "unopened", lines |-> 0]
NoLibcall == [fn |-> "none"]

RunArgs(cosmology, d, zi, Mi, z, com, mah, filename, retcosmo) ==
    [cosmology |-> cosmology, mapping0 |-> d, zi |-> zi, Mi |-> Mi, z |-> z,
     com |-> com, mah |-> mah, filename |-> filename, retcosmo |-> retcosmo]

NoArgs ==
    RunArgs(NotStrNotDict, EmptyDict, default_zi, default_Mi, zFalse, TRUE,
            TRUE, "None", FALSE)

\* a new call of run: a fresh frame.  A call starts from "idle"; the frame
\* of a call that has ended ("done") is looked at, and only the caller's
\* mapping lives on into a further call
Enter(a, h) ==
    /\ pc' = "flags"
    /\ arg' = a
    /\ heap' = h
    /\ results' = NoResults
    /\ cosmo' = "unbound"
    /\ fout' = NoFile
    /\ dataset' = <<>>
    /\ i_ind' = 0
    /\ it' = NoIt
    /\ comcall' = NoCOM
    /\ stdout' = <<>>
    /\ exc' = "none"
    /\ ret' = "none"
    /\ libcall' = NoLibcall

\* the masses of a call of run: run computes with a mass only through the
\* formulas that are kept as terms, so a call is the same up to the names of
\* its masses, and the first one is taken to be 1
MiArgs ==
    {x \in ArgsOver(InputMasses, MaxLen + 1) :
        x.vals = <<>> \/ x.vals[1] = 1}

\* run(name, zi, Mi, z, com, mah), without an output file
CallRun ==
    /\ pc = "idle"
    /\ \E cosmology \in SomeNames, zi \in ArgsOver(Redshifts, MaxLen),
       Mi \in MiArgs, z \in zArgs,
       com \in BOOLEAN, mah \in BOOLEAN :
        Enter(RunArgs(cosmology, EmptyDict, zi, Mi, z, com, mah, "None",
                      FALSE), NoHeap)

\* run(cosmology) and run(cosmology, retcosmo=True) with a name or with a
\* value that is neither a name nor a mapping
CallRunNamed ==
    /\ pc = "idle"
    /\ \E cosmology \in AllNames \cup {NotStrNotDict}, retcosmo \in BOOLEAN :
        Enter(RunArgs(cosmology, EmptyDict, default_zi, default_Mi, zFalse,
                      TRUE, TRUE, "None", retcosmo), NoHeap)

\* run(d) with a mapping d the caller has just built
CallRunMapping ==
    /\ pc = "idle"
    /\ \E d \in CustomMappings, retcosmo \in BOOLEAN :
        Enter(RunArgs(TheDict, d, default_zi, default_Mi, zFalse, TRUE, TRUE,
                      "None", retcosmo), [NoHeap EXCEPT !.caller = d])

\* run with or without an output file, at redshifts around zmax, of the
\* samples and of the targets, and with one mass or with three
HighRedshifts == {0, 1, zmax - 1, zmax, zmax + 1}

HighZi == {Scalar(0), Scalar(zmax), List(<<0, zmax>>), List(<<zmax - 1, zmax + 1>>)}

HighMi == {default_Mi, List(<<1, 2, 1>>)}

HighZ ==
    {zFalse, zGiven(List(<<0, zmax - 1>>)), zGiven(List(<<1, zmax>>)),
     zGiven(List(<<zmax + 1, 0>>))}

CallRunHighZ ==
    /\ pc = "idle"
    /\ \E zi \in HighZi, Mi \in HighMi, z \in HighZ, com \in BOOLEAN,
          mah \in BOOLEAN, filename \in Filenames :
        Enter(RunArgs(Str("wmap5", FALSE), EmptyDict, zi, Mi, z, com, mah,
                      filename, FALSE), NoHeap)

\* run(d) again with the mapping object of the call that has just ended
CallRunSameMapping ==
    /\ pc = "done"
    /\ arg.cosmology.kind = "dict"
    /\ Enter([arg EXCEPT !.mapping0 = heap.caller],
             [NoHeap EXCEPT !.caller = heap.caller])

(***************************************************************************)
(* run, statement by statement.                                            *)
(***************************************************************************)
\* lines 656-659
RunCheckFlags ==
    /\ pc = "flags"
    /\ IF ~arg.com /\ ~arg.mah
       THEN /\ stdout' = Append(stdout, "User has to choose com=True and / or mah=True")
            /\ ret' = "minus1"
            /\ pc' = "done"
       ELSE /\ pc' = "checkinput"
            /\ UNCHANGED <<stdout, ret>>
    /\ UNCHANGED <<libcall, arg, results, heap, cosmo, fout, dataset, i_ind, it,
                   comcall, exc>>

\* lines 664-671
RunCheckInput ==
    /\ pc = "checkinput"
    /\ results' = _checkinput(arg.zi, arg.Mi, arg.z)
    /\ IF results'.code = -1
       THEN /\ stdout' = Append(stdout, "Error ambiguous request")
            /\ ret' = "minus1"
            /\ pc' = "done"
       ELSE /\ pc' = "getcosmo"
            /\ UNCHANGED <<stdout, ret>>
    /\ UNCHANGED <<libcall, arg, heap, cosmo, fout, dataset, i_ind, it, comcall, exc>>

\* line 675; an exception of getcosmo leaves run at once (the try starts later)
RunGetcosmo ==
    /\ pc = "getcosmo"
    /\ LET r == getcosmo(arg.cosmology, heap)
       IN  /\ heap' = r.heap
           /\ cosmo' = r.cosmo
           /\ stdout' = stdout \o r.stdout
           /\ exc' = r.exc
           /\ pc' = IF r.exc = "none" THEN "open" ELSE "done"
    /\ UNCHANGED <<libcall, arg, results, fout, dataset, i_ind, it, comcall, ret>>

\* lines 678-680
RunOpen ==
    /\ pc = "open"
    /\ fout' = IF arg.filename # "None"
               THEN [state |-> "open", lines |-> 0] ELSE fout
    /\ pc' = "create"
    /\ UNCHANGED <<libcall, arg, results, heap, cosmo, dataset, i_ind, it, comcall,
                   stdout, exc, ret>>

\* the columns of the dtype for the flags
Columns(mah, com) ==
    IF mah /\ com THEN DOMAIN ZeroRow
    ELSE IF mah THEN {"zi", "Mi", "z", "dMdt", "Mz"}
    ELSE {"zi", "Mi", "z", "c", "sig", "nu", "zf"}

header_lines == 5

\* fout.write may raise (the disk is full, the descriptor is gone): which
\* write does is not decided by run, it is the parameter wfail of the
\* actions that write (the first write that raises, 0 if none does)
WriteFails(filename, n) == IF filename # "None" THEN 0..n ELSE {0}

\* lines 684-741: the header and np.zeros((lenm, lenzout), dtype)
RunCreate ==
    /\ pc = "create"
    /\ \E wfail \in WriteFails(arg.filename, 1) :
          IF wfail > 0
          THEN /\ exc' = "OSError"
               /\ pc' = "finally"
               /\ UNCHANGED <<fout, dataset>>
          ELSE /\ fout' = IF arg.filename # "None"
                          THEN [fout EXCEPT !.lines = @ + header_lines]
                          ELSE fout
               /\ dataset' = [i \in 1..results.lenm |->
                                [j \in 1..results.lenzout |->
                                   Restrict(ZeroRow, Columns(arg.mah, arg.com))]]
               /\ pc' = "loop"
               /\ UNCHANGED exc
    /\ UNCHANGED <<libcall, arg, results, heap, cosmo, i_ind, it, comcall,
                   stdout, ret>>

\* the (zval, Mval) the loop of line 744 goes through
samples == IF results.code = 0 THEN _izip(results.zi, results.Mi) ELSE <<>>

\* a selection of the z strictly above zi
targets_strict(z, zval) ==
    IF ~z.given THEN <<zval>>
    ELSE SelectSeq(z.vals, LAMBDA v : v > zval)

\* lines 752-755
targets(z, zval) ==
    IF ~z.given THEN <<zval>>
    ELSE SelectSeq(z.vals, LAMBDA v : v >= zval)

\* the tuple stored at dataset[i_ind, j_ind], lines 767, 779, 791
row(cols, zval, Mval, ztemp, dMdt, Mz, cm, j) ==
    [col \in cols |->
        CASE col = "zi" -> zval
          [] col = "Mi" -> Mval
          [] col = "z" -> ztemp[j]
          [] col = "dMdt" -> dMdt[j]
          [] col = "Mz" -> Mz[j]
          [] col = "c" -> cm.c[j]
          [] col = "sig" -> cm.sig[j]
          [] col = "nu" -> cm.nu[j]
          [] col = "zf" -> cm.zf[j]]

\* COM on the sample's own Mi when MAH was not asked for
COM_M_broadcast(mah, Mz, Mval, ztemp) ==
    IF mah THEN Mz ELSE [k \in 1..Len(ztemp) |-> Num(Mval)]

\* COM on the Mz an earlier sample left behind when MAH was not asked for
COM_M_stale(mah, Mz, Mval, ztemp) ==
    IF mah \/ Len(it.Mz) # Len(ztemp) THEN Mz ELSE it.Mz

\* the M that run hands to COM: the Mz that MAH has just returned, at line 764
\* (mah and com) and at line 787 (com only)
COM_M(mah, Mz, Mval, ztemp) == Mz

\* lines 744-797: one iteration of the loop over the samples
RunSample ==
    /\ pc = "loop"
    /\ i_ind < Len(samples)
    /\ LET zval == samples[i_ind + 1][1]
           Mval == samples[i_ind + 1][2]
           ztemp == targets(results.z, zval)
           m == MAH(ztemp, zval, Num(Mval))
       IN  IF Len(ztemp) = 0
           THEN /\ it' = [it EXCEPT !.ztemp = ztemp]
                /\ i_ind' = i_ind + 1
                /\ UNCHANGED <<pc, fout, dataset, comcall, exc>>
           ELSE IF MAH_exc(ztemp, zval, deref(heap, cosmo)) # "none"
           THEN /\ it' = [it EXCEPT !.ztemp = ztemp]
                /\ exc' = MAH_exc(ztemp, zval, deref(heap, cosmo))
                /\ pc' = "finally"
                /\ UNCHANGED <<fout, dataset, i_ind, comcall>>
           ELSE \E fail \in 0..(IF arg.com THEN Len(ztemp) ELSE 0),
                   wfail \in WriteFails(arg.filename, Len(ztemp)) :
                LET cm == IF arg.com
                          THEN COM(ztemp, COM_M(arg.mah, m.Mz, Mval, ztemp),
                                   deref(heap, cosmo), fail, <<>>)
                          ELSE comcall
                    cols == Columns(arg.mah, arg.com)
                    new(j) == row(cols, zval, Mval, ztemp, m.dMdt, m.Mz, cm, j)
                    \* the rows stored: all, or up to the write that raises
                    stored == IF wfail > 0 THEN wfail ELSE Len(ztemp)
                    written == IF wfail > 0 THEN wfail - 1 ELSE Len(ztemp)
                IN  /\ it' = [ztemp |-> ztemp, dMdt |-> m.dMdt, Mz |-> m.Mz]
                    /\ comcall' = cm
                    /\ IF arg.com /\ cm.exc # "none"
                       THEN /\ exc' = cm.exc
                            /\ pc' = "finally"
                            /\ UNCHANGED <<fout, dataset, i_ind>>
                       ELSE /\ dataset' =
                                [dataset EXCEPT ![i_ind + 1] =
                                    [j \in 1..results.lenzout |->
                                        IF j <= stored THEN new(j)
                                        ELSE @[j]]]
                            /\ fout' = IF arg.filename # "None"
                                       THEN [fout EXCEPT !.lines = @ + written]
                                       ELSE fout
                            /\ IF wfail > 0
                               THEN /\ exc' = "OSError"
                                    /\ pc' = "finally"
                                    /\ UNCHANGED i_ind
                               ELSE /\ i_ind' = i_ind + 1
                                    /\ UNCHANGED <<pc, exc>>
    /\ UNCHANGED <<libcall, arg, results, heap, cosmo, stdout, ret>>

\* a clause that closes the file only when nothing was raised
RunFinally_on_success ==
    /\ pc \in {"loop", "finally"}
    /\ pc = "loop" => i_ind = Len(samples)
    /\ fout' = IF arg.filename # "None" /\ exc = "none"
               THEN [fout EXCEPT !.state = "closed"] ELSE fout
    /\ ret' = IF exc # "none" THEN "none"
              ELSE IF arg.retcosmo THEN "dataset, cosmo" ELSE "dataset"
    /\ pc' = "done"
    /\ UNCHANGED <<libcall, arg, results, heap, cosmo, dataset, i_ind, it,
                   comcall, stdout, exc>>

\* lines 799-806: the finally clause, then the return (or the exception goes on)
RunFinally ==
    /\ pc \in {"loop", "finally"}
    /\ pc = "loop" => i_ind = Len(samples)
    /\ fout' = IF arg.filename # "None"
               THEN [fout EXCEPT !.state = "closed"] ELSE fout
    /\ ret' = IF exc # "none" THEN "none"
              ELSE IF arg.retcosmo THEN "dataset, cosmo" ELSE "dataset"
    /\ pc' = "done"
    /\ UNCHANGED <<libcall, arg, results, heap, cosmo, dataset, i_ind, it, comcall,
                   stdout, exc>>

Init ==
    /\ pc = "idle"
    /\ arg = NoArgs
    /\ results = NoResults
    /\ heap = NoHeap
    /\ cosmo = "unbound"
    /\ fout = NoFile
    /\ dataset = <<>>
    /\ i_ind = 0
    /\ it = NoIt
    /\ comcall = NoCOM
    /\ stdout = <<>>
    /\ exc = "none"
    /\ ret = "none"
    /\ libcall = NoLibcall

Next ==
    \/ CallRun
    \/ CallRunNamed
    \/ CallRunMapping
    \/ CallRunSameMapping
    \/ CallRunHighZ
    \/ RunCheckFlags
    \/ RunCheckInput
    \/ RunGetcosmo
    \/ RunOpen
    \/ RunCreate
    \/ RunSample
    \/ RunFinally

Spec == Init /\ [][Next]_vars

(***************************************************************************)
(* _checkinput on its own: run entered at line 664 with any zi, Mi of up   *)
(* to MaxLen + 1 elements.                                                 *)
(***************************************************************************)
InitCheckinput ==
    /\ pc = "checkinput"
    /\ arg \in {RunArgs(Str("wmap5", FALSE), EmptyDict, zi, Mi, z, TRUE, TRUE,
                        "None", FALSE) :
                   zi \in ArgsOver(Redshifts, MaxLen + 1),
                   Mi \in ArgsOver(InputMasses, MaxLen + 1), z \in zArgs}
    /\ results = NoResults
    /\ heap = NoHeap
    /\ cosmo = "unbound"
    /\ fout = NoFile
    /\ dataset = <<>>
    /\ i_ind = 0
    /\ it = NoIt
    /\ comcall = NoCOM
    /\ stdout = <<>>
    /\ exc = "none"
    /\ ret = "none"
    /\ libcall = NoLibcall

NextCheckinput == RunCheckInput

SpecCheckinput == InitCheckinput /\ [][NextCheckinput]_vars

(***************************************************************************)
(* COM on its own: COM(z, M, **cosmo) called by a client with any z and M  *)
(* and the record of a named cosmology.                                    *)
(***************************************************************************)
InitCOM ==
    /\ pc = "COM"
    /\ arg = NoArgs
    /\ results = NoResults
    /\ \E name \in {Str("wmap5", FALSE), Str("planck15", TRUE)} :
          heap = getcosmo(name, NoHeap).heap
    /\ cosmo = "fresh"
    /\ fout = NoFile
    /\ dataset = <<>>
    /\ i_ind = 0
    /\ it = NoIt
    /\ \E z \in SeqsUpTo(Redshifts, MaxLenZ), M \in SeqsUpTo(InputMasses, MaxLen) :
          comcall = [NoCOM EXCEPT !.z = z,
                                  !.M = [k \in 1..Len(M) |-> Num(M[k])]]
    /\ stdout = <<>>
    /\ exc = "none"
    /\ ret = "none"
    /\ libcall = NoLibcall

\* lines 513-559
COMCall ==
    /\ pc = "COM"
    /\ LET pairs == _izip(comcall.z, comcall.M)
       IN  \E fail \in 0..Len(pairs),
              garbage \in [(Len(pairs) + 1)..Len(comcall.z) -> GarbageRows] :
               /\ comcall' = COM(comcall.z, comcall.M, deref(heap, cosmo),
                                 fail, garbage)
               /\ exc' = comcall'.exc
               /\ ret' = IF comcall'.exc = "none" THEN "arrays" ELSE "none"
    /\ pc' = "done"
    /\ UNCHANGED <<libcall, arg, results, heap, cosmo, fout, dataset, i_ind, it, stdout>>

NextCOM == COMCall

SpecCOM == InitCOM /\ [][NextCOM]_vars

(***************************************************************************)
(* The growth functions at redshifts around zmax: a client calls           *)
(* _int_growth, growthfactor, _deriv_growth or calc_ab with the record     *)
(* getcosmo has returned for a name or for a mapping, or calls run.        *)
(***************************************************************************)
GrowthArgs == ArgsOver(HighRedshifts, MaxLenZ)

\* mappings with their own omega_M_0 and omega_lambda_0: getcosmo takes
\* them as they are, whether they add up to one or not
GrowthMappings ==
    {[custom_full EXCEPT !["omega_M_0"] = m, !["omega_lambda_0"] = l] :
        m \in {275, 300}, l \in {725, 700, 500}}

\* the records getcosmo returns
GrowthCosmos ==
    {getcosmo(Str("wmap5", FALSE), NoHeap).heap.fresh} \cup
    {getcosmo(TheDict, [NoHeap EXCEPT !.caller = d]).heap.caller :
        d \in GrowthMappings}

\* the call c has ended with the outcome c.r
LibCall(c) ==
    /\ pc = "idle"
    /\ libcall' = c
    /\ exc' = c.r.exc
    /\ ret' = IF c.r.exc = "none" THEN "value" ELSE "none"
    /\ pc' = "done"
    /\ UNCHANGED <<arg, results, heap, cosmo, fout, dataset, i_ind, it,
                   comcall, stdout>>

CallIntGrowth ==
    \E z \in GrowthArgs, d \in GrowthCosmos, quad_ok \in BOOLEAN :
        LibCall([fn |-> "_int_growth", z |-> z, d |-> d,
                 r |-> _int_growth(z, d, quad_ok)])

CallGrowthfactor ==
    \E z \in GrowthArgs, norm \in BOOLEAN, d \in GrowthCosmos,
       quad_ok \in BOOLEAN :
        LibCall([fn |-> "growthfactor", z |-> z, norm |-> norm, d |-> d,
                 r |-> growthfactor(z, norm, d, quad_ok)])

CallDerivGrowth ==
    \E z \in GrowthArgs, d \in GrowthCosmos, quad_ok \in BOOLEAN :
        LibCall([fn |-> "_deriv_growth", z |-> z, d |-> d,
                 r |-> _deriv_growth(z, d, quad_ok)])

CallCalcAb ==
    \E zi \in HighRedshifts, Mi \in InputMasses, d \in GrowthCosmos :
        LibCall([fn |-> "calc_ab", z |-> Scalar(zi), Mi |-> Num(Mi), d |-> d,
                 r |-> IF calc_ab_exc(zi, d) # "none"
                       THEN [exc |-> calc_ab_exc(zi, d)]
                       ELSE [exc |-> "none", val |-> calc_ab(zi, Num(Mi))]])

\* MAH(z, zi, Mi) for a halo whose indices have the values ix
MAHRedshifts == {0, 1, 2}
GrowthTerms2 == {-3, -2, -1}
SigmaTerms == {1, 2}

CallMAH ==
    \E z \in SeqsUpTo(MAHRedshifts, MaxLenZ), zi \in {0, 1, zmax},
       Mi \in InputMasses, gt2 \in GrowthTerms2, f \in SigmaTerms :
        LET d == getcosmo(Str("wmap5", FALSE), NoHeap).heap.fresh
            e == MAH_exc(z, zi, d)
            m == MAH(z, zi, Num(Mi))
        IN  LibCall([fn |-> "MAH", z |-> z, zi |-> zi, Mi |-> Num(Mi),
                     ix |-> calc_ab_values(gt2, f),
                     r |-> IF e # "none" THEN [exc |-> e]
                           ELSE [exc |-> "none", dMdt |-> m.dMdt,
                                 Mz |-> m.Mz]])

NextGrowth ==
    \/ CallIntGrowth
    \/ CallGrowthfactor
    \/ CallDerivGrowth
    \/ CallCalcAb
    \/ CallMAH
    \/ CallRunHighZ
    \/ RunCheckFlags
    \/ RunCheckInput
    \/ RunGetcosmo
    \/ RunOpen
    \/ RunCreate
    \/ RunSample
    \/ RunFinally

SpecGrowth == Init /\ [][NextGrowth]_vars

(***************************************************************************)
(* The claims.                                                             *)
(***************************************************************************)
Range(s) == {s[k] : k \in DOMAIN s}

zi_in == np_array(arg.zi)
Mi_in == np_array(arg.Mi)

\* the sizes of zi and Mi cannot be matched
Ambiguous == Len(zi_in) > 1 /\ Len(Mi_in) > 1 /\ Len(zi_in) # Len(Mi_in)

\* nothing of run after line 671 has happened
NothingResolved ==
    /\ cosmo = "unbound"
    /\ heap.fresh = EmptyDict
    /\ heap.caller = arg.mapping0
    /\ fout = NoFile
    /\ dataset = <<>>
    /\ i_ind = 0
    /\ it = NoIt
    /\ comcall = NoCOM

\* C1: run returns -1 without raising when neither mah nor com is selected
\* and when zi and Mi are ambiguously sized, and when it has returned -1 no
\* cosmology has been resolved, no file opened and no row computed.
C1_EarlyReturn ==
    /\ (pc = "done" /\ ((~arg.com /\ ~arg.mah) \/ Ambiguous))
          => (ret = "minus1" /\ exc = "none")
    /\ ret = "minus1" => NothingResolved

C1_Witness ==
    /\ pc = "done"
    /\ ret = "minus1"
    /\ arg.com
    /\ Ambiguous
    /\ arg.filename # "None"

\* C2: _checkinput either rejects the request or returns zi and Mi of the
\* same length, and it rejects exactly when both have more than one element
\* and their lengths differ (for inputs of any length, 0 included).
C2_SameLengthOrRejected ==
    results.code \in {-1, 0} =>
        /\ results.code = 0 => Len(results.zi) = Len(results.Mi)
        /\ results.code = -1 <=> Ambiguous

\* C3: when exactly one of zi, Mi has one element and the other n > 1, the
\* one-element input becomes n copies of its value and the other input is
\* returned as it was.
C3_Broadcast ==
    results.code = 0 =>
        /\ (Len(zi_in) = 1 /\ Len(Mi_in) > 1) =>
              /\ Len(results.zi) = Len(Mi_in)
              /\ \A k \in 1..Len(Mi_in) : results.zi[k] = zi_in[1]
              /\ results.Mi = Mi_in
        /\ (Len(Mi_in) = 1 /\ Len(zi_in) > 1) =>
              /\ Len(results.Mi) = Len(zi_in)
              /\ \A k \in 1..Len(zi_in) : results.Mi[k] = Mi_in[1]
              /\ results.zi = zi_in

C3_Witness ==
    /\ results.code = 0
    /\ Len(zi_in) = 1
    /\ Len(Mi_in) = 3
    /\ Mi_in[1] # Mi_in[2]
    /\ results.zi = <<zi_in[1], zi_in[1], zi_in[1]>>

\* the elements of s that are >= v, in the order of s
RECURSIVE Keep(_, _)
Keep(s, v) ==
    IF s = <<>> THEN <<>>
    ELSE IF Head(s) >= v THEN <<Head(s)>> \o Keep(Tail(s), v)
    ELSE Keep(Tail(s), v)

\* the target redshifts of sample i, from the arguments of the call
ExpectedTargets(i) ==
    IF ~arg.z.given THEN <<samples[i][1]>>
    ELSE Keep(np_array(arg.z), samples[i][1])

Returned == pc = "done" /\ ret \in {"dataset", "dataset, cosmo"}

LastSample == IF exc # "none" THEN i_ind + 1 ELSE i_ind

\* MAH of the latest iteration raised, so the iteration did not reach COM
MAHRaised ==
    /\ exc # "none"
    /\ exc = MAH_exc(it.ztemp, samples[i_ind + 1][1], deref(heap, cosmo))

CalledCOM ==
    /\ pc \in {"loop", "finally", "done"}
    /\ arg.com
    /\ Len(it.ztemp) > 0
    /\ ~MAHRaised

\* C5 as claimed: COM is called with z = the targets and with M = the Mz of
\* MAH if mah is requested, M = the sample's Mi broadcast over the targets
\* if it is not.
C5_AsClaimed ==
    CalledCOM =>
        LET zval == samples[LastSample][1]
            Mval == samples[LastSample][2]
            T == ExpectedTargets(LastSample)
        IN  /\ comcall.z = T
            /\ comcall.M = IF arg.mah THEN MAH(T, zval, Num(Mval)).Mz
                           ELSE [k \in 1..Len(T) |-> Num(Mval)]

\* C5 amended: COM is called with z = the targets and with M = the Mz that
\* MAH computed for those targets, whether or not mah is requested.
C5_MzInBothModes ==
    CalledCOM =>
        LET zval == samples[LastSample][1]
            Mval == samples[LastSample][2]
            T == ExpectedTargets(LastSample)
        IN  /\ comcall.z = T
            /\ comcall.M = MAH(T, zval, Num(Mval)).Mz

C5_Witness ==
    /\ CalledCOM
    /\ ~arg.mah
    /\ comcall.exc = "none"
    /\ \E k \in 1..Len(comcall.z) :
          /\ comcall.z[k] # samples[LastSample][1]
          /\ comcall.M[k] # Num(samples[LastSample][2])

\* C6 as claimed: when the solve fails for one pair, COM does not raise, it
\* stores -1 in c, sig, nu and zf of that pair, and the other pairs and the
\* other samples are still computed.
C6_AsClaimed ==
    comcall.failed > 0 =>
        /\ comcall.exc = "none"
        /\ exc = "none"
        /\ Len(comcall.c) = Len(comcall.z)
        /\ comcall.c[comcall.failed] = Num(-1)
        /\ comcall.sig[comcall.failed] = Num(-1)
        /\ comcall.nu[comcall.failed] = Num(-1)
        /\ comcall.zf[comcall.failed] = Num(-1)

\* getcosmo has ended (returned or raised) in this call of run
GetcosmoEnded ==
    \/ pc \in {"open", "create", "loop", "finally"}
    \/ pc = "done" /\ results.code = 0

\* getcosmo has returned in this call of run
GetcosmoReturned ==
    \/ pc \in {"open", "create", "loop", "finally"}
    \/ Returned
    \/ pc = "done" /\ exc \in {"ValueError", "AssertionError"}

InTable ==
    /\ arg.cosmology.kind = "str"
    /\ lower(arg.cosmology).base \in getcosmo_names

\* C7 as claimed: for a cosmology that is neither a mapping nor a name of
\* the table (up to case) getcosmo fails, saying that the cosmology is not
\* recognised, and returns no record; a name of the table in any case is
\* accepted.
C7_AsClaimed ==
    GetcosmoEnded =>
        /\ (arg.cosmology.kind # "dict" /\ ~InTable) =>
              /\ exc # "none"
              /\ cosmo = "unbound"
              /\ "not a recognised cosmology" \in Range(stdout)
        /\ InTable =>
              /\ cosmo = "fresh"
              /\ exc \notin {"AttributeError", "UnboundLocalError", "KeyError"}

\* the loop of COM has paired z and M this many times
NPairs == Min(Len(comcall.z), Len(comcall.M))

COMReturned == pc = "done" /\ ret = "arrays"

\* one entry per pair, entry k from pair k, nothing unassigned
OneEntryPerPair ==
    LET A == deref(heap, cosmo)["A_scaling"]
    IN  /\ Len(comcall.c) = NPairs
        /\ Len(comcall.sig) = NPairs
        /\ Len(comcall.nu) = NPairs
        /\ Len(comcall.zf) = NPairs
        /\ comcall.assigned = 1..Len(comcall.c)
        /\ \A k \in 1..NPairs :
              LET e == COM_pair(comcall.z[k], comcall.M[k], A)
              IN  /\ comcall.c[k] = e.c
                  /\ comcall.sig[k] = e.sig
                  /\ comcall.nu[k] = e.nu
                  /\ comcall.zf[k] = e.zf

\* C8 as claimed: for every z and M the four sequences COM returns have one
\* entry per pair (z[k], M[k]), entry k computed from pair k, as many
\* entries as pairs and none unassigned.
C8_AsClaimed == COMReturned => OneEntryPerPair

\* C8 amended: the same, for every z and M where M has at least as many
\* elements as z (as when they have the same size, which COM's docstring
\* asks for and run provides).
C8_OneEntryPerPair ==
    (COMReturned /\ Len(comcall.M) >= Len(comcall.z)) => OneEntryPerPair

C8_Witness ==
    /\ COMReturned
    /\ Len(comcall.z) = 2
    /\ Len(comcall.M) = 2
    /\ comcall.z[1] # comcall.z[2]
    /\ comcall.c[1] # comcall.c[2]
    /\ comcall.assigned = {1, 2}

\* C9: whenever getcosmo returns, the record has an A_scaling: the table's
\* value for a name, the caller's own value when the mapping has one, the
\* derived value when it has none; no COM call of run finds it missing.
C9_AscalingPresent ==
    GetcosmoReturned =>
        LET d == deref(heap, cosmo)
        IN  /\ "A_scaling" \in DOMAIN d
            /\ arg.cosmology.kind = "str" =>
                  d["A_scaling"] = Num(Ascaling_table[arg.cosmology.base])
            /\ arg.cosmology.kind = "dict" =>
                  d["A_scaling"] =
                     IF "A_scaling" \in DOMAIN arg.mapping0
                     THEN arg.mapping0["A_scaling"]
                     ELSE getAscaling_new(arg.mapping0)
            /\ comcall.exc # "KeyError"

C9_Witness ==
    /\ Returned
    /\ arg.cosmology.kind = "dict"
    /\ "A_scaling" \notin DOMAIN arg.mapping0
    /\ Len(comcall.c) > 0
    /\ comcall.c[1].x[5] = getAscaling_new(arg.mapping0)

\* C10 as claimed: run does not modify the mapping the caller passed: it
\* has the same keys and values during and after the call as before.
C10_AsClaimed ==
    arg.cosmology.kind = "dict" => heap.caller = arg.mapping0

\* a direct call of one of the growth functions with the redshift argument z
GrowthCalled ==
    libcall.fn \in {"_int_growth", "growthfactor", "_deriv_growth", "calc_ab"}

\* run has evaluated, or will have to evaluate, the growth factor at these
\* redshifts: the zi of every sample that has targets (MAH, line 761), and
\* its targets when com is requested (COM, lines 764 and 787)
GrowthRedshiftsOf(i) ==
    LET T == ExpectedTargets(i)
    IN  IF Len(T) = 0 THEN {}
        ELSE {results.zi[i]} \cup (IF arg.com THEN Range(T) ELSE {})

\* C11: _int_growth fails without a value whenever its redshift, or an
\* element of its sequence of redshifts, is >= 200, and not on this guard
\* when all are < 200; so do growthfactor, _deriv_growth and calc_ab, and a
\* call of run that evaluates the growth factor at a redshift >= 200, in MAH
\* or in COM, ends with that exception and returns no table.
C11_ZmaxGuard ==
    /\ GrowthCalled =>
          /\ (\E k \in 1..Len(libcall.z.vals) : libcall.z.vals[k] >= 200)
                <=> libcall.r.exc = "AssertionError"
          /\ libcall.r.exc = "AssertionError" =>
                (DOMAIN libcall.r = {"exc"} /\ exc = "AssertionError"
                 /\ ret = "none")
    /\ Returned =>
          \A i \in 1..Len(samples) : \A v \in GrowthRedshiftsOf(i) : v < 200
    /\ (pc = "done" /\ libcall.fn = "none" /\ exc = "AssertionError") =>
          /\ ret = "none"
          /\ \E v \in GrowthRedshiftsOf(i_ind + 1) : v >= 200
    /\ (pc = "done" /\ libcall.fn = "none" /\ results.code = 0
        /\ \E i \in 1..Len(samples) : \E v \in GrowthRedshiftsOf(i) : v >= 200)
          => /\ ret = "none"
             /\ exc \in {"AssertionError", "ValueError", "OSError"}

\* run went through MAH for the sample, and COM raised at the second pair
C11_Witness ==
    /\ pc = "done"
    /\ libcall.fn = "none"
    /\ exc = "AssertionError"
    /\ ret = "none"
    /\ comcall.exc = "AssertionError"
    /\ comcall.assigned = {1}
    /\ results.zi[i_ind + 1] < 200

\* the growth factor g is 1: the integral over its divisor is 1 and so is H
equals_one(g) ==
    /\ g.x[2] = g.x[3]
    /\ \A k \in 1..Len(g.x[1].x[1]) :
          g.x[1].x[1][k] * g.x[1].x[2] + g.x[1].x[3] = 1000

\* C12 as claimed: growthfactor(0, norm=True) is 1 for every record that
\* getcosmo returns, for a name or for a mapping with any omega_M_0 and
\* omega_lambda_0.
C12_AsClaimed ==
    (/\ libcall.fn = "growthfactor"
     /\ libcall.z = Scalar(0)
     /\ libcall.norm
     /\ libcall.r.exc = "none") => equals_one(libcall.r.val)

MAHReturned == libcall.fn = "MAH" /\ libcall.r.exc = "none"

\* C13: for one sample (zi, Mi) and two targets z2 > z1 >= zi of one MAH
\* call the masses satisfy Mz(z1) >= Mz(z2), and the mass at z = zi is Mi
\* (for a sample whose indices calc_ab returns as numbers).
C13_Monotone ==
    MAHReturned =>
        /\ Len(libcall.r.Mz) = Len(libcall.z)
        /\ \A j \in 1..Len(libcall.z) :
              libcall.z[j] = libcall.zi => libcall.r.Mz[j] = libcall.Mi
        /\ \A j \in 1..Len(libcall.z), k \in 1..Len(libcall.z) :
              (libcall.z[k] > libcall.z[j] /\ libcall.z[j] >= libcall.zi) =>
                  /\ step_of(libcall.r.Mz[j]) = libcall.z[j] - libcall.zi
                  /\ step_of(libcall.r.Mz[k]) = libcall.z[k] - libcall.zi
                  /\ Mz_ge(libcall.r.Mz[j], libcall.r.Mz[k], libcall.ix)

C13_Witness ==
    /\ MAHReturned
    /\ Len(libcall.z) = 2
    /\ libcall.z[2] = libcall.zi
    /\ libcall.z[1] > libcall.zi + 1
    /\ libcall.ix.a2 > 0
    /\ libcall.r.Mz[2] = libcall.Mi
    /\ libcall.r.Mz[1] # libcall.Mi

\* MAH of the latest iteration of run's loop has returned
MAHDone ==
    /\ pc \in {"loop", "finally", "done"}
    /\ libcall.fn = "none"
    /\ LastSample >= 1
    /\ Len(it.ztemp) > 0
    /\ ~MAHRaised

\* C14: in one MAH call every target's dMdt and Mz are computed with
\* calc_ab(zi, Mi) of the sample, the same for all targets; COM computes
\* the indices of pair k as calc_ab(z[k], M[k]), for each pair its own.
C14_Indices ==
    /\ MAHDone =>
          LET ab == calc_ab(results.zi[LastSample], Num(results.Mi[LastSample]))
          IN  \A j \in 1..Len(it.ztemp) :
                /\ it.dMdt[j].f = "dMdt"
                /\ it.dMdt[j].x[4] = ab
                /\ \/ it.Mz[j] = Num(results.Mi[LastSample])
                   \/ it.Mz[j].f = "Mz" /\ it.Mz[j].x[3] = ab
    /\ (CalledCOM /\ comcall.exc = "none") =>
          \A k \in 1..Len(comcall.z) :
              /\ comcall.c[k].f = "root"
              /\ comcall.c[k].x[3] = comcall.z[k]
              /\ comcall.c[k].x[4] = calc_ab(comcall.z[k], comcall.M[k])

C14_Witness ==
    /\ Returned
    /\ MAHDone
    /\ arg.mah
    /\ CalledCOM
    /\ Len(it.ztemp) = 2
    /\ it.ztemp[1] # it.ztemp[2]
    /\ it.dMdt[1].x[4] = it.dMdt[2].x[4]
    /\ comcall.c[1].x[4] # comcall.c[2].x[4]
    /\ \E k \in 1..2 : comcall.c[k].x[4] # it.dMdt[k].x[4]

\* the rows of one sample (zval, Mval) computed from it alone: from the
\* sample, the requested z, the flags and the cosmology record
RowsAlone(zval, Mval) ==
    LET T == IF ~arg.z.given THEN <<zval>> ELSE Keep(np_array(arg.z), zval)
        m == MAH(T, zval, Num(Mval))
        cm == IF arg.com
              THEN COM(T, m.Mz, deref(heap, cosmo), 0, <<>>) ELSE NoCOM
        cols == Columns(arg.mah, arg.com)
        n == IF arg.z.given THEN Len(np_array(arg.z)) ELSE 1
    IN  [j \in 1..n |->
            IF j <= Len(T) THEN row(cols, zval, Mval, T, m.dMdt, m.Mz, cm, j)
            ELSE Restrict(ZeroRow, cols)]

\* C15: the rows run produces for a sample are those computed from the
\* sample's own (zi, Mi), the requested z, the flags and the cosmology, in
\* every flag mode: nothing of the other samples enters them.
C15_Independent ==
    (pc \in {"loop", "finally", "done"} /\ libcall.fn = "none"
     /\ results.code = 0) =>
        \A i \in 1..i_ind :
            dataset[i] = RowsAlone(results.zi[i], results.Mi[i])

C15_Witness ==
    /\ Returned
    /\ arg.com
    /\ ~arg.mah
    /\ i_ind = 2
    /\ results.Mi[1] # results.Mi[2]
    /\ Len(Keep(np_array(arg.z), results.zi[1])) =
          Len(Keep(np_array(arg.z), results.zi[2]))
    /\ \E j \in 1..Len(dataset[2]) :
          /\ dataset[2][j].z > results.zi[2]
          /\ dataset[2][j].c.x[4].x[2].x[1] = Num(results.Mi[2])
          /\ dataset[1][j].c.x[4].x[2].x[1] = Num(results.Mi[1])

\* the number of output redshifts requested, 1 when z is not given
RequestedZ == IF arg.z.given THEN Len(np_array(arg.z)) ELSE 1

\* C16 as claimed: the table run returns has one line per sample and in
\* each line one entry per requested output redshift (one when z is not
\* given), whatever the zi; the rows of sample i fill the first entries of
\* line i in target order, with zi and Mi of the sample and z the target,
\* and the entries after them are all zeros.
C16_AsClaimed ==
    Returned =>
        /\ Len(dataset) = Len(_izip(results.zi, results.Mi))
        /\ \A i \in 1..Len(dataset) : Len(dataset[i]) = RequestedZ
        /\ \A i \in 1..Len(_izip(results.zi, results.Mi)) :
              LET T == IF ~arg.z.given THEN <<results.zi[i]>>
                       ELSE Keep(np_array(arg.z), results.zi[i])
              IN  /\ \A j \in 1..Len(T) :
                        /\ dataset[i][j].zi = results.zi[i]
                        /\ dataset[i][j].Mi = results.Mi[i]
                        /\ dataset[i][j].z = T[j]
                  /\ \A j \in (Len(T) + 1)..RequestedZ :
                        dataset[i][j] =
                            Restrict(ZeroRow, Columns(arg.mah, arg.com))

\* run has got past line 680 in this call
PastOpen ==
    /\ libcall.fn = "none"
    /\ \/ pc \in {"create", "loop", "finally"}
       \/ pc = "done" /\ results.code = 0 /\ cosmo # "unbound"
                      /\ exc \notin {"UnboundLocalError", "KeyError"}

\* C17: a file that run has opened is closed when run ends, on the normal
\* return and when MAH, COM or a write has raised in the loop; it is open
\* from line 680 to the finally clause; without a filename no file is
\* opened or closed.
C17_Closed ==
    /\ (pc = "done" /\ libcall.fn = "none") => fout.state # "open"
    /\ (PastOpen /\ arg.filename # "None") =>
          fout.state = IF pc = "done" THEN "closed" ELSE "open"
    /\ arg.filename = "None" => fout = NoFile
    /\ ~PastOpen => fout = NoFile

\* run ends with the file closed after sample 2 has raised in MAH
C17_Witness ==
    /\ pc = "done"
    /\ libcall.fn = "none"
    /\ fout.state = "closed"
    /\ i_ind = 1
    /\ exc = "AssertionError"
    /\ MAHRaised
    /\ fout.lines = header_lines + 1

====
